---- MODULE Spec2Model ----
(***************************************************************************)
(* BigDiff: comparison of a base and a target directory tree and the       *)
(* materialization of every difference in an output tree.                  *)
(*                                                                         *)
(* A file name is the sequence of its dot-separated segments               *)
(* ("a.txt" is <<"a", "txt">>), a path is the sequence of its components,  *)
(* a file's content is the sequence of its bytes, a directory tree is a    *)
(* function from the relative paths below its root to nodes.               *)
(***************************************************************************)
EXTENDS Integers, Sequences, FiniteSets, TLC

\* ------------------------------------------------------------------ bounds

\* Largest number of entries of an input tree.
MaxEntries == 3
\* Number of runs of run_bigdiff over the same input trees.
MaxRuns == 2
\* Largest number of bytes of a text given to annotate_text_diff.
MaxTextLen == 2
\* Largest disambiguator already taken in the output tree of avoid_collision.
MaxTaken == 3

\* ------------------------------------------------------- program constants

\* utils.rs: let mut buffer = [0u8; 4096];
SniffLen == 4096

\* ------------------------------------------------------------------- bytes

NUL == "<00>"
BAD == "<FF>"
LF == "\n"
CR == "\r"

\* ------------------------------------------------------- sequence helpers

Last(s) == s[Len(s)]

Front(s) == SubSeq(s, 1, Len(s) - 1)

IsPrefix(q, p) == Len(q) <= Len(p) /\ SubSeq(p, 1, Len(q)) = q

IsSuffix(q, p) == Len(q) <= Len(p) /\ SubSeq(p, Len(p) - Len(q) + 1, Len(p)) = q

RECURSIVE Flatten(_)
Flatten(ss) == IF ss = <<>> THEN <<>> ELSE Head(ss) \o Flatten(Tail(ss))

RECURSIVE SetToSeqs(_)
\* Every enumeration of a finite set (an unordered iteration).
SetToSeqs(S) ==
    IF S = {} THEN {<<>>}
    ELSE UNION {{<<x>> \o r : r \in SetToSeqs(S \ {x})} : x \in S}

\* ------------------------------------------------------------- std::path

\* Path::file_name
file_name(p) == Last(p)

\* PathBuf::set_file_name
set_file_name(p, name) == [p EXCEPT ![Len(p)] = name]

\* Path::parent
parent(p) == Front(p)

\* Path::starts_with
starts_with(p, q) == IsPrefix(q, p)

\* Path::join of a relative path
join(p, rel) == p \o rel

\* OsString::push of ".deleted", ".new", ".modified", ".NOTE.txt" on a name
push_name(name, segs) == name \o segs

\* Path::file_stem of a name: all of it up to its last dot
file_stem(name) == IF Len(name) = 1 THEN name ELSE Front(name)

\* Path::extension of a name: what follows its last dot, if any
extension(name) == IF Len(name) = 1 THEN <<>> ELSE <<Last(name)>>

\* ------------------------------------------------------------ file system

Dir == [kind |-> "dir", data |-> <<>>]

File(data) == [kind |-> "file", data |-> data]

EmptyTree == [p \in {} |-> Dir]

\* Path::exists, relative to the tree's root (the root itself exists)
exists(fs, p) == p = <<>> \/ p \in DOMAIN fs

\* Path::is_dir
is_dir(fs, p) == p = <<>> \/ (p \in DOMAIN fs /\ fs[p].kind = "dir")

\* Path::is_file
is_file(fs, p) == p \in DOMAIN fs /\ fs[p].kind = "file"

\* The entries of directory p
Children(fs, p) == {q \in DOMAIN fs : Len(q) = Len(p) + 1 /\ IsPrefix(p, q)}

\* fs::create_dir_all: creates every missing ancestor; fails when a component
\* of the path exists and is not a directory
create_dir_all(fs, p) ==
    IF \E k \in 1..Len(p) : is_file(fs, SubSeq(p, 1, k))
    THEN [ok |-> FALSE, fs |-> fs]
    ELSE [ok |-> TRUE,
          fs |-> [q \in DOMAIN fs \cup {SubSeq(p, 1, k) : k \in 1..Len(p)} |->
                    IF q \in DOMAIN fs THEN fs[q] ELSE Dir]]

\* fs::copy and fs::write of `data` to dst: the parent has to be a directory
\* and dst must not be one; an existing file is truncated and rewritten
write_file(fs, dst, data) ==
    IF ~is_dir(fs, parent(dst)) \/ is_dir(fs, dst)
    THEN [ok |-> FALSE, fs |-> fs]
    ELSE [ok |-> TRUE,
          fs |-> [q \in DOMAIN fs \cup {dst} |->
                    IF q = dst THEN File(data) ELSE fs[q]]]

\* ---------------------------------------------------------------- utils.rs

\* char::to_lowercase on the letters of the units
lower(c) ==
    CASE c = "K" -> "k" [] c = "M" -> "m" [] c = "G" -> "g"
      [] c = "I" -> "i" [] c = "B" -> "b" [] OTHER -> c

\* str::trim on the one kind of blank the model has
RECURSIVE trim(_)
trim(t) ==
    IF t # <<>> /\ Head(t) = " " THEN trim(Tail(t))
    ELSE IF t # <<>> /\ Last(t) = " " THEN trim(Front(t))
    ELSE t

\* str::trim_end_matches: the suffix is removed as often as it is there
RECURSIVE trim_end_matches(_, _)
trim_end_matches(t, unit) ==
    IF IsSuffix(unit, t) THEN trim_end_matches(SubSeq(t, 1, Len(t) - Len(unit)), unit)
    ELSE t

Digits == {"0", "1", "2", "3", "4", "5", "6", "7", "8", "9"}

DigitValue(c) ==
    CASE c = "0" -> 0 [] c = "1" -> 1 [] c = "2" -> 2 [] c = "3" -> 3 [] c = "4" -> 4
      [] c = "5" -> 5 [] c = "6" -> 6 [] c = "7" -> 7 [] c = "8" -> 8 [] c = "9" -> 9

IsDigits(t) == \A i \in 1..Len(t) : t[i] \in Digits

\* The value of a string of digits
RECURSIVE Decimal(_)
Decimal(t) == IF t = <<>> THEN 0 ELSE 10 * Decimal(Front(t)) + DigitValue(Last(t))

\* str::parse::<u64>: decimal digits, at least one
parse_u64(t) ==
    IF t # <<>> /\ IsDigits(t) THEN [ok |-> TRUE, val |-> Decimal(t)]
    ELSE [ok |-> FALSE, val |-> 0]

\* str::parse::<f64> on digits with at most one point and a fraction of .0
\* or .5, the value doubled to stay in the integers; Err on anything with
\* another character
parse_f64(t) ==
    LET points == {i \in 1..Len(t) : t[i] = "."}
    IN IF points = {}
       THEN [ok |-> parse_u64(t).ok, twice |-> 2 * parse_u64(t).val]
       ELSE LET i == CHOOSE j \in points : TRUE
                whole == SubSeq(t, 1, i - 1)
                frac == SubSeq(t, i + 1, Len(t))
            IN IF /\ Cardinality(points) = 1
                  /\ IsDigits(whole)
                  /\ frac \in {<<>>, <<"0">>, <<"5">>}
                  /\ Len(whole) + Len(frac) > 0
               THEN [ok |-> TRUE,
                     twice |-> 2 * Decimal(whole) + (IF frac = <<"5">> THEN 1 ELSE 0)]
               ELSE [ok |-> FALSE, twice |-> 0]

\* parse_size's table, in its order
units ==
    <<[unit |-> <<"g", "i", "b">>, mult |-> 1024 * 1024 * 1024],
      [unit |-> <<"g">>, mult |-> 1000 * 1000 * 1000],
      [unit |-> <<"m", "i", "b">>, mult |-> 1024 * 1024],
      [unit |-> <<"m">>, mult |-> 1000 * 1000],
      [unit |-> <<"k", "i", "b">>, mult |-> 1024],
      [unit |-> <<"k">>, mult |-> 1000],
      [unit |-> <<"k", "b">>, mult |-> 1000],
      [unit |-> <<"m", "b">>, mult |-> 1000 * 1000],
      [unit |-> <<"g", "b">>, mult |-> 1000 * 1000 * 1000],
      [unit |-> <<"b">>, mult |-> 1]>>

\* (val * mult as f64) as u64, val given doubled: the product, truncated
scaled(twice, mult) == IF mult = 1 THEN twice \div 2 ELSE twice * (mult \div 2)

\* s.parse().unwrap_or(0)
size_fallback(parsed) == IF parsed.ok THEN parsed.val ELSE 0

\* parse_size's loop over the table from entry i on, then the bare number
RECURSIVE parse_size_from(_, _)
parse_size_from(t, i) ==
    IF i > Len(units) THEN size_fallback(parse_u64(t))
    ELSE IF /\ IsSuffix(units[i].unit, t)
            /\ parse_f64(trim_end_matches(t, units[i].unit)).ok
         THEN scaled(parse_f64(trim_end_matches(t, units[i].unit)).twice, units[i].mult)
         ELSE parse_size_from(t, i + 1)

\* parse_size
parse_size(str) ==
    LET t == trim(str)
    IN parse_size_from([i \in 1..Len(t) |-> lower(t[i])], 1)

\* is_probably_binary: sniffs at most the first SniffLen bytes
is_probably_binary(data) ==
    LET n == IF Len(data) < SniffLen THEN Len(data) ELSE SniffLen
        slice == SubSeq(data, 1, n)
    IN IF n = 0 THEN FALSE
       ELSE IF \E i \in 1..n : slice[i] = NUL THEN TRUE
       ELSE \E i \in 1..n : slice[i] = BAD

\* WINDOWS_1252.decode of one byte
decode_1252(b) == IF b = BAD THEN "<y-diaeresis>" ELSE b

RECURSIVE replace_crlf(_)
\* str::replace("\r\n", "\n")
replace_crlf(t) ==
    IF t = <<>> THEN <<>>
    ELSE IF Len(t) >= 2 /\ t[1] = CR /\ t[2] = LF
         THEN <<LF>> \o replace_crlf(SubSeq(t, 3, Len(t)))
         ELSE <<t[1]>> \o replace_crlf(Tail(t))

\* str::replace('\r', "\n")
replace_cr(t) == [i \in 1..Len(t) |-> IF t[i] = CR THEN LF ELSE t[i]]

\* read_text_best_effort: strict UTF-8, else Windows-1252; EOLs on request
read_text_best_effort(data, normalize_eol) ==
    LET content == IF \A i \in 1..Len(data) : data[i] # BAD
                   THEN data
                   ELSE [i \in 1..Len(data) |-> decode_1252(data[i])]
    IN IF normalize_eol THEN replace_cr(replace_crlf(content)) ELSE content

\* The SHA-256 digest of a content, taken to be free of collisions
hash_file(data) == <<"sha256", data>>

\* Mutant: the files are compared by size
file_bytes_equal_by_size(d1, d2) == Len(d1) = Len(d2)

\* file_bytes_equal (both files are readable)
file_bytes_equal(d1, d2) == hash_file(d1) = hash_file(d2)

\* format!("{stem} ({n}){ext}") in the candidate's directory
Numbered(path, n) ==
    LET name == file_name(path)
        stem == file_stem(name)
        ext == extension(name)
    IN join(parent(path),
            <<Front(stem) \o <<Last(stem) \o " (" \o ToString(n) \o ")">> \o ext>>)

RECURSIVE avoid_loop(_, _, _)
\* the loop of avoid_collision, from disambiguator n on
avoid_loop(fs, path, n) ==
    IF ~exists(fs, Numbered(path, n)) THEN Numbered(path, n)
    ELSE avoid_loop(fs, path, n + 1)

\* Mutant: the candidate is returned without a look at the output tree
avoid_collision_unchecked(fs, path) == path

\* Mutant: the disambiguators start at 0
avoid_collision_from_zero(fs, path) ==
    IF ~exists(fs, path) THEN path ELSE avoid_loop(fs, path, 0)

\* avoid_collision
avoid_collision(fs, path) ==
    IF ~exists(fs, path) THEN path ELSE avoid_loop(fs, path, 1)

\* rel_parts_with_deleted_suffix: ".deleted" on every component
rel_parts_with_deleted_suffix(rel) ==
    [i \in 1..Len(rel) |-> push_name(rel[i], <<"deleted">>)]

\* -------------------------------------------------------------- comment.rs

LinePrefix(prefix, new_suffix) ==
    [kind |-> "LinePrefix", prefix |-> prefix, new_suffix |-> new_suffix,
     open |-> <<>>, close |-> <<>>, new_block |-> <<>>]

Block(open, close, new_block) ==
    [kind |-> "Block", prefix |-> <<>>, new_suffix |-> <<>>,
     open |-> open, close |-> close, new_block |-> new_block]

DeletedTag == <<"D", "E", "L", "E", "T", "E", "D", ":", " ">>

NewTag == <<"N", "E", "W">>

\* split_newline
split_newline(s) ==
    IF s # <<>> /\ Last(s) = LF THEN <<Front(s), <<LF>>>> ELSE <<s, <<>>>>

\* CommentStyle::deleted_line
deleted_line(style, line) ==
    LET content == split_newline(line)[1]
        end == split_newline(line)[2]
    IN IF style.kind = "LinePrefix"
       THEN style.prefix \o DeletedTag \o content \o end
       ELSE style.open \o <<" ">> \o DeletedTag \o content \o <<" ">>
            \o style.close \o end

\* CommentStyle::append_new_suffix
append_new_suffix(style, line) ==
    LET content == split_newline(line)[1]
        end == split_newline(line)[2]
    IN IF style.kind = "LinePrefix"
       THEN content \o style.new_suffix \o end
       ELSE content \o <<" ">> \o style.new_block \o end

\* str::to_lowercase on the extensions the model uses
to_lowercase(s) ==
    CASE s = "TXT" -> "txt"
      [] s = "HTML" -> "html"
      [] s = "RS" -> "rs"
      [] OTHER -> s

slash_exts == {"c", "h", "cpp", "hpp", "cc", "java", "js", "ts", "tsx", "cs",
               "swift", "go", "kt", "kts", "scala", "dart", "php", "rs"}

hash_exts == {"py", "sh", "rb", "r", "ps1", "toml", "yaml", "yml", "cfg",
              "gitignore", "dockerignore"}

dash_exts == {"sql", "hs", "lua"}

percent_exts == {"tex", "m"}

semicolon_exts == {"ini"}

csv_like == {"csv", "tsv"}

text_like == {"txt", "log", "conf", "md"}

html_exts == {"html", "htm", "xml", "xhtml", "svg"}

cblock_exts == {"css", "scss", "less"}

json_exts == {"json"}

\* The comment marker `c` followed by `tag`, as " c NEW"
Suffix(c) == <<" ">> \o c \o <<" ">> \o NewTag

\* comment_style_for: by the lower-cased extension of the path
comment_style_for(path) ==
    LET e == extension(file_name(path))
        ext == IF e = <<>> THEN "" ELSE to_lowercase(e[1])
    IN IF ext \in slash_exts
       THEN LinePrefix(<<"/", "/", " ">>, Suffix(<<"/", "/">>))
       ELSE IF ext \in hash_exts \cup text_like \cup csv_like
       THEN LinePrefix(<<"#", " ">>, Suffix(<<"#">>))
       ELSE IF ext \in dash_exts
       THEN LinePrefix(<<"-", "-", " ">>, Suffix(<<"-", "-">>))
       ELSE IF ext \in percent_exts
       THEN LinePrefix(<<"%", " ">>, Suffix(<<"%">>))
       ELSE IF ext \in semicolon_exts
       THEN LinePrefix(<<";", " ">>, Suffix(<<";">>))
       ELSE IF ext \in html_exts
       THEN Block(<<"<", "!", "-", "-">>, <<"-", "-", ">">>,
                  <<"<", "!", "-", "-", " ">> \o NewTag \o <<" ", "-", "-", ">">>)
       ELSE IF ext \in cblock_exts \cup json_exts
       THEN Block(<<"/", "*">>, <<"*", "/">>,
                  <<"/", "*", " ">> \o NewTag \o <<" ", "*", "/">>)
       ELSE LinePrefix(<<"#", " ">>, Suffix(<<"#">>))

\* ----------------------------------------------------------------- diff.rs

RECURSIVE tokenize_lines(_)
\* TextDiff::from_lines: each line keeps its terminator (LF, CR LF or CR); a
\* last line without one is a line too
tokenize_lines(t) ==
    IF t = <<>> THEN <<>>
    ELSE LET ends == {i \in 1..Len(t) : t[i] = LF \/ t[i] = CR}
         IN IF ends = {} THEN <<t>>
            ELSE LET i == CHOOSE j \in ends : \A k \in ends : j <= k
                     e == IF t[i] = CR /\ i < Len(t) /\ t[i + 1] = LF
                          THEN i + 1 ELSE i
                 IN <<SubSeq(t, 1, e)>> \o tokenize_lines(SubSeq(t, e + 1, Len(t)))

Change(tag, value) == [tag |-> tag, value |-> value]

RECURSIVE iter_all_changes(_, _)
\* TextDiff::iter_all_changes: a shortest edit script over the lines, in
\* document order, the deletions of a replaced stretch before its insertions
iter_all_changes(a, b) ==
    IF a = <<>> THEN [i \in 1..Len(b) |-> Change("Insert", b[i])]
    ELSE IF b = <<>> THEN [i \in 1..Len(a) |-> Change("Delete", a[i])]
    ELSE IF Head(a) = Head(b)
         THEN <<Change("Equal", Head(a))>> \o iter_all_changes(Tail(a), Tail(b))
    ELSE LET del == <<Change("Delete", Head(a))>> \o iter_all_changes(Tail(a), b)
             ins == <<Change("Insert", Head(b))>> \o iter_all_changes(a, Tail(b))
         IN IF Len(del) <= Len(ins) THEN del ELSE ins

\* The text one change adds to the output
annotate_change(style, change) ==
    CASE change.tag = "Equal" -> change.value
      [] change.tag = "Delete" -> deleted_line(style, change.value)
      [] change.tag = "Insert" -> append_new_suffix(style, change.value)

\* annotate_text_diff
annotate_text_diff(a_data, b_data, style, normalize_eol) ==
    LET a_text == read_text_best_effort(a_data, normalize_eol)
        b_text == read_text_best_effort(b_data, normalize_eol)
        diff == iter_all_changes(tokenize_lines(a_text), tokenize_lines(b_text))
    IN Flatten([i \in 1..Len(diff) |-> annotate_change(style, diff[i])])

\* -------------------------------------------------------------- scanner.rs

\* The names is_ignored always ignores
DefaultIgnored == {<<".git">>, <<"__pycache__">>, <<".DS_Store">>, <<"Thumbs", "db">>}

\* A user glob: "*.<ext>" or a literal relative path
StarExt(ext) == [kind |-> "star_ext", ext |-> ext, path |-> <<>>]

Literal(path) == [kind |-> "literal", ext |-> "", path |-> path]

\* glob::Pattern::matches on the text of a relative path
matches(pat, path) ==
    IF pat.kind = "star_ext"
    THEN Len(file_name(path)) >= 2 /\ Last(file_name(path)) = pat.ext
    ELSE path = pat.path

\* is_ignored
is_ignored(rel, patterns) ==
    LET name == file_name(rel)
    IN \/ name \in DefaultIgnored
       \/ \E i \in 1..Len(patterns) :
            matches(patterns[i], rel) \/ matches(patterns[i], <<name>>)

RECURSIVE walk_unpruned(_, _, _)
\* Mutant: an ignored entry is dropped from the result but still descended
\* into
walk_unpruned(tree, patterns, dir) ==
    UNION {(IF is_ignored(c, patterns) THEN {} ELSE {c})
           \cup (IF is_dir(tree, c) THEN walk_unpruned(tree, patterns, c) ELSE {})
           : c \in Children(tree, dir)}

RECURSIVE walk(_, _, _)
\* The entries WalkDir yields below dir with filter_entry: an ignored entry is
\* dropped and, when a directory, not descended into
walk(tree, patterns, dir) ==
    UNION {IF is_ignored(c, patterns) THEN {}
           ELSE {c} \cup (IF is_dir(tree, c) THEN walk(tree, patterns, c) ELSE {})
           : c \in Children(tree, dir)}

\* scan_dir
scan_dir(root, tree, patterns) ==
    LET found == walk(tree, patterns, <<>>)
    IN [root |-> root,
        files |-> [rel \in {e \in found : is_file(tree, e)} |-> join(<<root>>, rel)],
        dirs |-> {e \in found : is_dir(tree, e)}]

NoScan == [root |-> <<>>, files |-> <<>>, dirs |-> {}]

\* ------------------------------------------------------------------ inputs

T1 == <<"a", LF>>
T2 == <<"b">>
BIN == <<NUL>>

A_ROOT == <<"base">>
B_ROOT == <<"target">>

\* The entries an input tree may hold, each with the nodes it may be
Universe ==
    (<<<<"old">>>> :> {Dir, File(T2)})
    @@ (<<<<"old">>, <<"a", "txt">>>> :> {File(T1), File(T2), File(BIN)})
    @@ (<<<<"old">>, <<"sub">>>> :> {Dir})
    @@ (<<<<"old">>, <<".git">>>> :> {File(T1)})
    @@ (<<<<"x">>>> :> {File(T1), File(T2)})
    @@ (<<<<"x", "new">>>> :> {Dir})
    @@ (<<<<"x", "new">>, <<"y">>>> :> {File(T1)})

\* The trees of at most MaxEntries entries over Universe
Trees ==
    UNION {{t \in [S -> UNION {Universe[p] : p \in S}] :
              \A p \in S : /\ t[p] \in Universe[p]
                           /\ Len(p) > 1 => (parent(p) \in S /\ t[parent(p)] = Dir)}
           : S \in {S \in SUBSET DOMAIN Universe : Cardinality(S) <= MaxEntries}}

\* cli.rs Options
Options(normalize_eol, max_text_size, ignore_patterns, dry_run) ==
    [normalize_eol |-> normalize_eol, max_text_size |-> max_text_size,
     ignore_patterns |-> ignore_patterns, dry_run |-> dry_run]

OptionSet ==
    {Options(FALSE, 5000000, <<>>, FALSE),
     Options(TRUE, 1, <<>>, FALSE),
     Options(FALSE, 5000000, <<StarExt("txt")>>, FALSE),
     Options(FALSE, 5000000, <<>>, TRUE)}

\* ------------------------------------------------------------------- state

VARIABLES
    base,       \* the base tree (read only)
    target,     \* the target tree (read only)
    opts,       \* the run's Options
    out,        \* the tree below out_root
    pc,         \* where run_bigdiff is
    scan_a,     \* run_bigdiff's scan_a
    scan_b,     \* run_bigdiff's scan_b
    counters,   \* run_bigdiff's counters
    heads,      \* the heads of head_del_dirs still to copy
    head,       \* copy_deleted_tree's head_rel, <<>> outside of it
    stack,      \* the entries copy_deleted_tree's walk has still to yield
    processed,  \* copy_deleted_tree's processed
    processed_deleted_files,
    todo,       \* the keys the current loop has still to visit
    events,     \* history: the increments of the counters, [path, class]
    log,        \* history: the writes into the output tree
    run,        \* the number of the run
    prev,       \* history: the outcome of each earlier run
    probe,      \* the input and result of a function applied on its own
    denied      \* the output paths at which the file system refuses a write

runVars == <<pc, scan_a, scan_b, counters, heads, head, stack, processed,
             processed_deleted_files, todo, events, log>>

vars == <<base, target, opts, out, runVars, run, prev, probe, denied>>

Counters(same, new_files, del_files, mod_text, mod_binary, del_dirs) ==
    [same |-> same, new_files |-> new_files, del_files |-> del_files,
     mod_text |-> mod_text, mod_binary |-> mod_binary, del_dirs |-> del_dirs]

\* Counters::default()
CountersDefault == Counters(0, 0, 0, 0, 0, 0)

NoProbe == [fn |-> "none"]

\* The state in which run_bigdiff is entered
Entry ==
    /\ pc = "start"
    /\ scan_a = NoScan
    /\ scan_b = NoScan
    /\ counters = CountersDefault
    /\ heads = <<>>
    /\ head = <<>>
    /\ stack = <<>>
    /\ processed = {}
    /\ processed_deleted_files = {}
    /\ todo = {}
    /\ events = {}
    /\ log = {}

\* run_bigdiff is called on two trees and an empty output directory
FirstCall ==
    /\ base \in Trees
    /\ target \in Trees
    /\ opts \in OptionSet
    /\ out = EmptyTree
    /\ Entry
    /\ run = 1
    /\ prev = <<>>
    /\ probe = NoProbe

Init ==
    /\ FirstCall
    /\ denied = {}

\* fs::copy and fs::write on a file system that may refuse: io::Error at a
\* denied destination
fs_write(fs, dst, data) ==
    IF dst \in denied THEN [ok |-> FALSE, fs |-> fs] ELSE write_file(fs, dst, data)

\* Mutant: the error is dropped and the loop goes on, as after `let _ =`
propagate_dropped(at) == at

\* The `?` operator: the error leaves run_bigdiff from where it is
propagate(at) == "failed"

\* The content of the file at an absolute path of a scan
read(abs) ==
    IF Head(abs) = A_ROOT THEN base[Tail(abs)].data ELSE target[Tail(abs)].data

\* One write into the output tree: for which relative path, of which kind,
\* where, what, and whether something was there before
Written(rel, kind, dst, data, fs) ==
    [rel |-> rel, kind |-> kind, dst |-> dst, data |-> data,
     clobbered |-> exists(fs, dst)]

Counted(path, class) == [path |-> path, class |-> class]

Bump(class) == [counters EXCEPT ![class] = @ + 1]

\* --------------------------------------------------- run_bigdiff: the scans

RECURSIVE collapse(_, _)
\* run_bigdiff's loop over sorted_dirs
collapse(sorted_dirs, head_del_dirs) ==
    IF sorted_dirs = <<>> THEN head_del_dirs
    ELSE LET d == Head(sorted_dirs)
         IN collapse(Tail(sorted_dirs),
                     IF \E i \in 1..Len(head_del_dirs) :
                            starts_with(d, head_del_dirs[i]) /\ d # head_del_dirs[i]
                     THEN head_del_dirs
                     ELSE Append(head_del_dirs, d))

\* Mutant: the set is taken in its iteration order, unsorted
Unsorted(S) == SetToSeqs(S)

\* sort_by_key(components().count()) of a set iterated in any order
SortedByDepth(S) ==
    {s \in SetToSeqs(S) : \A i \in 1..Len(s) - 1 : Len(s[i]) <= Len(s[i + 1])}

\* Both scans, del_dirs_all, sorted_dirs and head_del_dirs
Scan ==
    /\ pc = "start"
    /\ LET sa == scan_dir(A_ROOT, base, opts.ignore_patterns)
           sb == scan_dir(B_ROOT, target, opts.ignore_patterns)
           del_dirs_all == {d \in sa.dirs : d \notin sb.dirs}
       IN /\ scan_a' = sa
          /\ scan_b' = sb
          /\ \E sorted_dirs \in SortedByDepth(del_dirs_all) :
                heads' = collapse(sorted_dirs, <<>>)
    /\ counters' = CountersDefault
    /\ processed_deleted_files' = {}
    /\ pc' = "deleted_trees"
    /\ UNCHANGED <<base, target, opts, denied, out, head, stack, processed, todo,
                   events, log, run, prev, probe>>

\* ------------------------------------------------------- copy_deleted_tree

\* run_bigdiff calls copy_deleted_tree on the next head; WalkDir yields the
\* head first
EnterHead ==
    /\ pc = "deleted_trees"
    /\ head = <<>>
    /\ heads # <<>>
    /\ head' = Head(heads)
    /\ heads' = Tail(heads)
    /\ stack' = <<Head(heads)>>
    /\ processed' = {}
    /\ UNCHANGED <<base, target, opts, denied, out, pc, scan_a, scan_b, counters,
                   processed_deleted_files, todo, events, log, run, prev, probe>>

\* Mutant: the walk of a deleted tree drops the ignored entries, as scan_dir's
read_dir_filtered(rel) ==
    {c \in Children(base, rel) : ~is_ignored(c, opts.ignore_patterns)}

\* The entries WalkDir::new(head_abs) finds in a directory of the base tree:
\* all of them, no filter_entry here
read_dir(rel) == Children(base, rel)

\* The walk yields a directory: its entries follow, in the order of the
\* directory's listing
WalkDirEntry ==
    /\ pc = "deleted_trees"
    /\ stack # <<>>
    /\ is_dir(base, Head(stack))
    /\ LET rel_from_root == Head(stack)
           dest_path == rel_parts_with_deleted_suffix(rel_from_root)
       IN /\ out' = create_dir_all(out, dest_path).fs
          /\ IF rel_from_root = head
             THEN /\ counters' = Bump("del_dirs")
                  /\ events' = events \cup {Counted(rel_from_root, "del_dirs")}
             ELSE UNCHANGED <<counters, events>>
          /\ \E listing \in SetToSeqs(read_dir(rel_from_root)) :
                stack' = listing \o Tail(stack)
    /\ UNCHANGED <<base, target, opts, denied, pc, scan_a, scan_b, heads, head, processed,
                   processed_deleted_files, todo, log, run, prev, probe>>

\* The walk yields a file
WalkFileEntry ==
    /\ pc = "deleted_trees"
    /\ stack # <<>>
    /\ ~is_dir(base, Head(stack))
    /\ LET rel_from_root == Head(stack)
           dest_path == rel_parts_with_deleted_suffix(rel_from_root)
           dest_file == set_file_name(dest_path,
                                      push_name(file_name(dest_path), <<"deleted">>))
           made == create_dir_all(out, parent(dest_file)).fs
           dst == avoid_collision(made, dest_file)
           copy == fs_write(made, dst, base[rel_from_root].data)
       IN /\ out' = copy.fs
          /\ log' = IF copy.ok
                    THEN log \cup {Written(rel_from_root, "deleted_tree", dst,
                                           base[rel_from_root].data, made)}
                    ELSE log
          /\ counters' = Bump("del_files")
          /\ events' = events \cup {Counted(rel_from_root, "del_files")}
          /\ processed' = processed \cup {rel_from_root}
    /\ stack' = Tail(stack)
    /\ UNCHANGED <<base, target, opts, denied, pc, scan_a, scan_b, heads, head,
                   processed_deleted_files, todo, run, prev, probe>>

\* copy_deleted_tree returns; run_bigdiff extends processed_deleted_files
LeaveHead ==
    /\ pc = "deleted_trees"
    /\ head # <<>>
    /\ stack = <<>>
    /\ processed_deleted_files' = processed_deleted_files \cup processed
    /\ processed' = {}
    /\ head' = <<>>
    /\ UNCHANGED <<base, target, opts, denied, out, pc, scan_a, scan_b, counters, heads,
                   stack, todo, events, log, run, prev, probe>>

\* ------------------------------------------- run_bigdiff: the three loops

\* Every head is copied: the loop over scan_a.files starts
StartLoose ==
    /\ pc = "deleted_trees"
    /\ head = <<>>
    /\ heads = <<>>
    /\ pc' = "loose_deleted"
    /\ todo' = DOMAIN scan_a.files
    /\ UNCHANGED <<base, target, opts, denied, out, scan_a, scan_b, counters, heads, head,
                   stack, processed, processed_deleted_files, events, log, run,
                   prev, probe>>

\* out_root.join(rel) with `marker` pushed on its file name
Marked(rel, marker) == set_file_name(rel, push_name(file_name(rel), marker))

\* The copy of one file of a scan to its marked name: create_dir_all(parent)?,
\* avoid_collision, fs::copy?, the counter
Materialize(rel, abs, marker, kind, class) ==
    LET dst0 == Marked(rel, marker)
        made == create_dir_all(out, parent(dst0))
        dst == avoid_collision(made.fs, dst0)
        copy == fs_write(made.fs, dst, read(abs))
    IN IF ~made.ok
       THEN /\ pc' = propagate(pc)
            /\ UNCHANGED <<out, counters, events, log>>
       ELSE IF ~copy.ok
       THEN /\ pc' = propagate(pc)
            /\ out' = made.fs
            /\ UNCHANGED <<counters, events, log>>
       ELSE /\ out' = copy.fs
            /\ log' = log \cup {Written(rel, kind, dst, read(abs), made.fs)}
            /\ counters' = Bump(class)
            /\ events' = events \cup {Counted(rel, class)}
            /\ UNCHANGED pc

\* Mutant: the loop over scan_a.files forgets the files of the deleted trees
already_processed_never(rel_a) == FALSE

\* processed_deleted_files.contains(rel_a)
already_processed(rel_a) == rel_a \in processed_deleted_files

\* One turn of the loop over scan_a.files, in the map's order
LooseDeleted ==
    /\ pc = "loose_deleted"
    /\ \E rel_a \in todo :
        /\ todo' = todo \ {rel_a}
        /\ IF already_processed(rel_a)
           THEN UNCHANGED <<out, pc, counters, events, log>>
           ELSE IF rel_a \notin DOMAIN scan_b.files
           THEN Materialize(rel_a, scan_a.files[rel_a], <<"deleted">>, "deleted",
                            "del_files")
           ELSE UNCHANGED <<out, pc, counters, events, log>>
    /\ UNCHANGED <<base, target, opts, denied, scan_a, scan_b, heads, head, stack,
                   processed, processed_deleted_files, run, prev, probe>>

\* The loop over scan_a.files ends: the loop over scan_b.files starts
StartNew ==
    /\ pc = "loose_deleted"
    /\ todo = {}
    /\ pc' = "new_files"
    /\ todo' = DOMAIN scan_b.files
    /\ UNCHANGED <<base, target, opts, denied, out, scan_a, scan_b, counters, heads, head,
                   stack, processed, processed_deleted_files, events, log, run,
                   prev, probe>>

\* Mutant: the key is looked up in the map it comes from
only_in_target_own_map(rel_b) == rel_b \notin DOMAIN scan_b.files

\* !scan_a.files.contains_key(rel_b)
only_in_target(rel_b) == rel_b \notin DOMAIN scan_a.files

\* One turn of the loop over scan_b.files, in the map's order
NewFile ==
    /\ pc = "new_files"
    /\ \E rel_b \in todo :
        /\ todo' = todo \ {rel_b}
        /\ IF only_in_target(rel_b)
           THEN Materialize(rel_b, scan_b.files[rel_b], <<"new">>, "new", "new_files")
           ELSE UNCHANGED <<out, pc, counters, events, log>>
    /\ UNCHANGED <<base, target, opts, denied, scan_a, scan_b, heads, head, stack,
                   processed, processed_deleted_files, run, prev, probe>>

\* The loop over scan_b.files ends: common_files is computed
StartCommon ==
    /\ pc = "new_files"
    /\ todo = {}
    /\ pc' = "common_files"
    /\ todo' = {k \in DOMAIN scan_a.files : k \in DOMAIN scan_b.files}
    /\ UNCHANGED <<base, target, opts, denied, out, scan_a, scan_b, counters, heads, head,
                   stack, processed, processed_deleted_files, events, log, run,
                   prev, probe>>

\* format!(...) of the note: both origins and the size
note_content(a_file, b_file, size_b) ==
    <<"File treated as binary or too large for line diff.", a_file, b_file, size_b,
      "Strategy: direct copy from target to '.modified'.">>

\* Mutant: a file of exactly the threshold's size is too large
too_large_inclusive(size_b) == size_b >= opts.max_text_size

\* size_b > opts.max_text_size
too_large(size_b) == size_b > opts.max_text_size

\* A modified common file: the raw copy and its note, or the annotated diff
Modified(rel, a_file, b_file) ==
    LET style == comment_style_for(rel)
        dst0 == Marked(rel, <<"modified">>)
        made == create_dir_all(out, parent(dst0))
        dst == avoid_collision(made.fs, dst0)
        size_b == Len(read(b_file))
        is_bin == is_probably_binary(read(b_file))
        copy == fs_write(made.fs, dst, read(b_file))
        note_path == Marked(dst, <<"NOTE", "txt">>)
        note == fs_write(copy.fs, note_path, note_content(a_file, b_file, size_b))
        annotated == annotate_text_diff(read(a_file), read(b_file), style,
                                        opts.normalize_eol)
        text == fs_write(made.fs, dst, annotated)
    IN IF ~made.ok
       THEN /\ pc' = propagate(pc)
            /\ UNCHANGED <<out, counters, events, log>>
       ELSE IF is_bin \/ too_large(size_b)
       THEN IF ~copy.ok
            THEN /\ pc' = propagate(pc)
                 /\ out' = made.fs
                 /\ UNCHANGED <<counters, events, log>>
            ELSE /\ counters' = Bump("mod_binary")
                 /\ events' = events \cup {Counted(rel, "mod_binary")}
                 /\ out' = note.fs
                 /\ log' = log
                      \cup {Written(rel, "modified", dst, read(b_file), made.fs)}
                      \cup (IF note.ok
                            THEN {Written(rel, "note", note_path,
                                          note_content(a_file, b_file, size_b),
                                          copy.fs)}
                            ELSE {})
                 /\ pc' = IF note.ok THEN pc ELSE propagate(pc)
       ELSE IF ~text.ok
       THEN /\ pc' = propagate(pc)
            /\ out' = made.fs
            /\ UNCHANGED <<counters, events, log>>
       ELSE /\ out' = text.fs
            /\ log' = log \cup {Written(rel, "modified", dst, annotated, made.fs)}
            /\ counters' = Bump("mod_text")
            /\ events' = events \cup {Counted(rel, "mod_text")}
            /\ UNCHANGED pc

\* One turn of the loop over common_files, in the map's order
CommonFile ==
    /\ pc = "common_files"
    /\ \E rel \in todo :
        /\ todo' = todo \ {rel}
        /\ LET a_file == scan_a.files[rel]
               b_file == scan_b.files[rel]
           IN IF file_bytes_equal(read(a_file), read(b_file))
              THEN /\ counters' = Bump("same")
                   /\ events' = events \cup {Counted(rel, "same")}
                   /\ UNCHANGED <<out, pc, log>>
              ELSE Modified(rel, a_file, b_file)
    /\ UNCHANGED <<base, target, opts, denied, scan_a, scan_b, heads, head, stack,
                   processed, processed_deleted_files, run, prev, probe>>

\* The loop over common_files ends: Ok(counters)
Finish ==
    /\ pc = "common_files"
    /\ todo = {}
    /\ pc' = "done"
    /\ UNCHANGED <<base, target, opts, denied, out, scan_a, scan_b, counters, heads, head,
                   stack, processed, processed_deleted_files, todo, events, log,
                   run, prev, probe>>

\* run_bigdiff is called again on the same trees with the same options, the
\* output directory of the earlier run kept or a new one
Rerun ==
    /\ pc \in {"done", "failed"}
    /\ run < MaxRuns
    /\ run' = run + 1
    /\ prev' = Append(prev, [outcome |-> pc, counters |-> counters])
    /\ \E reuse \in BOOLEAN : out' = IF reuse THEN out ELSE EmptyTree
    /\ pc' = "start"
    /\ scan_a' = NoScan
    /\ scan_b' = NoScan
    /\ counters' = CountersDefault
    /\ heads' = <<>>
    /\ head' = <<>>
    /\ stack' = <<>>
    /\ processed' = {}
    /\ processed_deleted_files' = {}
    /\ todo' = {}
    /\ events' = {}
    /\ log' = {}
    /\ UNCHANGED <<base, target, opts, denied, probe>>

\* ---------------------------------------------------------- specifications

RunOnce ==
    \/ Scan
    \/ EnterHead
    \/ WalkDirEntry
    \/ WalkFileEntry
    \/ LeaveHead
    \/ StartLoose
    \/ LooseDeleted
    \/ StartNew
    \/ NewFile
    \/ StartCommon
    \/ CommonFile
    \/ Finish

Next == RunOnce

\* One run of run_bigdiff into an empty output directory
Spec == Init /\ [][Next]_vars

\* Runs of run_bigdiff over trees of at most MaxEntries entries together, the
\* output directory of a run kept or emptied for the next
InitRerun ==
    /\ Init
    /\ Cardinality(DOMAIN base) + Cardinality(DOMAIN target) <= MaxEntries

NextRerun == RunOnce \/ Rerun

SpecRerun == InitRerun /\ [][NextRerun]_vars

\* The destinations a write may be refused at
FaultPaths ==
    {Marked(f, <<m>>) : f \in {<<<<"x">>>>, <<<<"old">>>>, <<<<"old">>, <<"a", "txt">>>>},
                        m \in {"deleted", "new", "modified"}}
    \cup {Marked(Marked(<<<<"x">>>>, <<"modified">>), <<"NOTE", "txt">>),
          <<<<"old", "deleted">>, <<"a", "txt", "deleted", "deleted">>>>}

\* One run of run_bigdiff on a file system that refuses the writes at one path
InitFault ==
    /\ FirstCall
    /\ Cardinality(DOMAIN base) + Cardinality(DOMAIN target) <= MaxEntries
    /\ \E p \in FaultPaths : denied = {p}

SpecFault == InitFault /\ [][Next]_vars

\* ------------------------------------------ annotate_text_diff on its own

Alphabet == {"a", "b", LF, CR, BAD}

RECURSIVE SeqsUpTo(_, _)
\* The sequences over S of length at most n
SeqsUpTo(S, n) ==
    IF n = 0 THEN {<<>>}
    ELSE SeqsUpTo(S, n - 1)
         \cup {Append(t, x) : t \in {u \in SeqsUpTo(S, n - 1) : Len(u) = n - 1}, x \in S}

Texts == SeqsUpTo(Alphabet, MaxTextLen)

AnnotatedPaths == {<<<<"notes", "txt">>>>, <<<<"page", "HTML">>>>, <<<<"Makefile">>>>}

\* No run of run_bigdiff: a function is applied on its own
Idle ==
    /\ base = EmptyTree
    /\ target = EmptyTree
    /\ opts = Options(FALSE, 0, <<>>, FALSE)
    /\ pc = "probe"
    /\ scan_a = NoScan
    /\ scan_b = NoScan
    /\ counters = CountersDefault
    /\ heads = <<>>
    /\ head = <<>>
    /\ stack = <<>>
    /\ processed = {}
    /\ processed_deleted_files = {}
    /\ todo = {}
    /\ events = {}
    /\ log = {}
    /\ run = 1
    /\ prev = <<>>
    /\ denied = {}

InitAnnotate ==
    /\ Idle
    /\ out = EmptyTree
    /\ \E a \in Texts, b \in Texts, path \in AnnotatedPaths, normalize_eol \in BOOLEAN :
        probe = [fn |-> "annotate_text_diff", a |-> a, b |-> b, path |-> path,
                 normalize_eol |-> normalize_eol, done |-> FALSE, result |-> <<>>]

\* annotate_text_diff(a, b, comment_style_for(path), normalize_eol)
Annotate ==
    /\ probe.fn = "annotate_text_diff"
    /\ ~probe.done
    /\ probe' = [probe EXCEPT
                   !.done = TRUE,
                   !.result = annotate_text_diff(probe.a, probe.b,
                                                 comment_style_for(probe.path),
                                                 probe.normalize_eol)]
    /\ UNCHANGED <<base, target, opts, denied, out, runVars, run, prev>>

SpecAnnotate == InitAnnotate /\ [][Annotate]_vars

\* ----------------------------------------------------- the scans on their own

ScanPatterns ==
    {<<>>,
     <<StarExt("txt")>>,
     <<StarExt("new")>>,
     <<Literal(<<<<"old">>>>)>>,
     <<Literal(<<<<"old">>, <<"sub">>>>), StarExt("txt")>>}

InitScan ==
    /\ base \in Trees
    /\ target \in Trees
    /\ \E patterns \in ScanPatterns : opts = Options(FALSE, 5000000, patterns, FALSE)
    /\ out = EmptyTree
    /\ Entry
    /\ run = 1
    /\ prev = <<>>
    /\ probe = NoProbe
    /\ denied = {}

\* run_bigdiff up to head_del_dirs
SpecScan == InitScan /\ [][Scan]_vars

\* -------------------------------------------------------------------- main

MISSING == <<"missing">>
OUT == <<"outdir">>

\* Pattern::new on the strings the model passes
pattern_new(str) ==
    CASE str = "*.txt" -> [ok |-> TRUE, pattern |-> StarExt("txt")]
      [] str = "[" -> [ok |-> FALSE, pattern |-> StarExt("")]

\* The command lines: absolute paths of directories that exist (the two
\* input trees), may exist (OUT, entries of the trees) or do not (MISSING)
MainArgs ==
    [base_dir : {<<A_ROOT>>, <<MISSING>>},
     target_dir : {<<B_ROOT>>, <<A_ROOT>>, <<MISSING>>},
     output_dir : {<<OUT>>, <<A_ROOT>>, <<B_ROOT>>, <<A_ROOT, <<"old">>>>,
                   <<A_ROOT, <<"old">>, <<"sub">>>>, <<B_ROOT, <<"x">>>>},
     ignore : {<<>>, <<"*.txt">>, <<"*.txt", "[">>},
     normalize_eol : {FALSE},
     max_text_size : {<<"5", "M", "B">>},
     dry_run : BOOLEAN]

\* Path::exists on the disk: the two trees, and OUT when it is there
exists_abs(p) ==
    CASE Head(p) = A_ROOT -> exists(base, Tail(p))
      [] Head(p) = B_ROOT -> exists(target, Tail(p))
      [] Head(p) = OUT -> probe.out_exists
      [] OTHER -> FALSE

\* main is entered
InitMain ==
    /\ base \in Trees
    /\ target \in Trees
    /\ Cardinality(DOMAIN base) + Cardinality(DOMAIN target) < MaxEntries
    /\ opts = Options(FALSE, 0, <<>>, FALSE)
    /\ out = EmptyTree
    /\ Entry
    /\ run = 1
    /\ prev = <<>>
    /\ denied = {}
    /\ \E args \in MainArgs, out_exists \in BOOLEAN :
        probe = [fn |-> "main", args |-> args, step |-> "canonicalize",
                 a_root |-> <<>>, b_root |-> <<>>, out_exists |-> out_exists,
                 made |-> {}, exit |-> 0, report |-> <<>>]

\* The process ends with this status
Exit(status) == [probe EXCEPT !.step = "exit", !.exit = status]

\* canonicalize() of both input roots, each with `?`
MainCanonicalize ==
    /\ probe.fn = "main"
    /\ probe.step = "canonicalize"
    /\ probe' = IF exists_abs(probe.args.base_dir) /\ exists_abs(probe.args.target_dir)
                THEN [probe EXCEPT !.step = "same",
                                   !.a_root = probe.args.base_dir,
                                   !.b_root = probe.args.target_dir]
                ELSE Exit(1)
    /\ UNCHANGED <<base, target, opts, denied, out, runVars, run, prev>>

\* if a_root == b_root { bail!(..) }
MainSame ==
    /\ probe.fn = "main"
    /\ probe.step = "same"
    /\ probe' = IF probe.a_root = probe.b_root THEN Exit(1)
                ELSE [probe EXCEPT !.step = "output"]
    /\ UNCHANGED <<base, target, opts, denied, out, runVars, run, prev>>

\* The output directory: checked against the roots when it exists, made with
\* create_dir_all when it does not
MainOutput ==
    /\ probe.fn = "main"
    /\ probe.step = "output"
    /\ LET out_root == probe.args.output_dir
           a_root == probe.a_root
           b_root == probe.b_root
           within == IF Head(out_root) = A_ROOT THEN base ELSE target
           made == create_dir_all(within, Tail(out_root))
           checked == [probe EXCEPT !.step = "patterns"]
       IN IF exists_abs(out_root)
          THEN /\ probe' = IF \/ out_root = a_root
                              \/ out_root = b_root
                              \/ starts_with(out_root, a_root)
                              \/ starts_with(out_root, b_root)
                           THEN Exit(1) ELSE checked
               /\ UNCHANGED <<base, target>>
          ELSE IF Head(out_root) = OUT
          THEN /\ probe' = [checked EXCEPT !.out_exists = TRUE,
                                           !.made = @ \cup {out_root}]
               /\ UNCHANGED <<base, target>>
          ELSE /\ probe' = IF made.ok
                           THEN [checked EXCEPT !.made = @ \cup {out_root}]
                           ELSE Exit(1)
               /\ base' = IF Head(out_root) = A_ROOT THEN made.fs ELSE base
               /\ target' = IF Head(out_root) = B_ROOT THEN made.fs ELSE target
    /\ UNCHANGED <<opts, denied, out, runVars, run, prev>>

\* Pattern::new(s).expect(..) on each --ignore, then the Options
MainPatterns ==
    /\ probe.fn = "main"
    /\ probe.step = "patterns"
    /\ LET ignore == probe.args.ignore
           patterns == [i \in 1..Len(ignore) |-> pattern_new(ignore[i])]
       IN IF \E i \in 1..Len(ignore) : ~patterns[i].ok
          THEN /\ probe' = Exit(101)
               /\ UNCHANGED opts
          ELSE /\ probe' = [probe EXCEPT !.step = "mode"]
               /\ opts' = Options(probe.args.normalize_eol,
                                  parse_size(probe.args.max_text_size),
                                  [i \in 1..Len(ignore) |-> patterns[i].pattern],
                                  probe.args.dry_run)
    /\ UNCHANGED <<base, target, denied, out, runVars, run, prev>>

\* if opts.dry_run: both scans, the three numbers, return Ok(())
MainDryRun ==
    /\ probe.fn = "main"
    /\ probe.step = "mode"
    /\ opts.dry_run
    /\ LET sa == scan_dir(A_ROOT, base, opts.ignore_patterns)
           sb == scan_dir(B_ROOT, target, opts.ignore_patterns)
           only_a == Cardinality(DOMAIN sa.files \ DOMAIN sb.files)
           only_b == Cardinality(DOMAIN sb.files \ DOMAIN sa.files)
           common == Cardinality(DOMAIN sa.files \cap DOMAIN sb.files)
       IN /\ scan_a' = sa
          /\ scan_b' = sb
          /\ probe' = [Exit(0) EXCEPT !.report = <<only_a, only_b, common>>]
    /\ UNCHANGED <<base, target, opts, denied, out, pc, counters, heads, head, stack,
                   processed, processed_deleted_files, todo, events, log, run, prev>>

\* run_bigdiff(&a_root, &b_root, &out_root, &opts) is called
MainRun ==
    /\ probe.fn = "main"
    /\ probe.step = "mode"
    /\ ~opts.dry_run
    /\ probe' = [probe EXCEPT !.step = "run_bigdiff"]
    /\ UNCHANGED <<base, target, opts, denied, out, runVars, run, prev>>

NextMain ==
    \/ MainCanonicalize
    \/ MainSame
    \/ MainOutput
    \/ MainPatterns
    \/ MainDryRun
    \/ MainRun

\* main up to its call of run_bigdiff
SpecMain == InitMain /\ [][NextMain]_vars

\* -------------------------------------------------- parse_size on its own

Numbers ==
    {<<"1">>, <<"1", ".", "5">>, <<"1", "2">>, <<"0", "1">>, <<>>, <<"x">>, <<"1", "x">>,
     <<"1", ".", "5", ".">>}

Suffixes ==
    {<<>>, <<"b">>, <<"B">>, <<"k">>, <<"K", "B">>, <<"k", "b">>, <<"K", "i", "B">>,
     <<"m">>, <<"M", "B">>, <<"M", "i", "B">>, <<"g">>, <<"G", "B">>, <<"g", "i", "b">>,
     <<"k", "k">>, <<"t", "b">>, <<"b", " ">>, <<" ", "k">>}

\* The sizes that stay below 2^31
SizeStrings ==
    {[num |-> n, unit |-> u] : n \in Numbers, u \in Suffixes}
    \ {[num |-> <<"1", "2">>, unit |-> u] :
          u \in {<<"g">>, <<"G", "B">>, <<"g", "i", "b">>}}

InitSize ==
    /\ Idle
    /\ out = EmptyTree
    /\ \E a \in SizeStrings :
        probe = [fn |-> "parse_size", num |-> a.num, unit |-> a.unit,
                 s |-> a.num \o a.unit, done |-> FALSE, result |-> 0]

\* parse_size(s)
Size ==
    /\ probe.fn = "parse_size"
    /\ ~probe.done
    /\ probe' = [probe EXCEPT !.done = TRUE, !.result = parse_size(probe.s)]
    /\ UNCHANGED <<base, target, opts, denied, out, runVars, run, prev>>

SpecSize == InitSize /\ [][Size]_vars

\* --------------------------------------------- avoid_collision on its own

Candidates ==
    {<<<<"x", "new">>>>,
     <<<<"old", "deleted">>, <<"a", "txt", "deleted", "deleted">>>>,
     <<<<"README">>>>}

\* The candidate and its first MaxTaken disambiguations
Slots(candidate) == {candidate} \cup {Numbered(candidate, n) : n \in 1..MaxTaken}

InitCollide ==
    /\ Idle
    /\ \E candidate \in Candidates :
        /\ probe = [fn |-> "avoid_collision", candidate |-> candidate,
                    done |-> FALSE, result |-> <<>>]
        /\ \E taken \in SUBSET Slots(candidate) :
             out \in [(taken \cup {parent(candidate)}) \ {<<>>} -> {Dir, File(T1)}]
        /\ parent(candidate) # <<>> => out[parent(candidate)] = Dir

\* avoid_collision(candidate) on the output tree
Collide ==
    /\ probe.fn = "avoid_collision"
    /\ ~probe.done
    /\ probe' = [probe EXCEPT !.done = TRUE,
                              !.result = avoid_collision(out, probe.candidate)]
    /\ UNCHANGED <<base, target, opts, denied, out, runVars, run, prev>>

SpecCollide == InitCollide /\ [][Collide]_vars

\* ------------------------------------------------------------------ claims

\* The counters incremented for path p
Classes(p) == {e.class : e \in {e \in events : e.path = p}}

\* The paths counted in `class`
CountOf(class) == Cardinality({e \in events : e.class = class})

\* Every counter is the number of paths counted in it: no path is counted
\* twice in one counter
CountersMatchEvents == \A class \in DOMAIN counters : counters[class] = CountOf(class)

\* The relative paths either scan found
ScannedPaths ==
    DOMAIN scan_a.files \cup scan_a.dirs \cup DOMAIN scan_b.files \cup scan_b.dirs

\* The directories of the base scan that the target scan lacks and that lie
\* below no other such directory
DeletedHeads ==
    LET gone == scan_a.dirs \ scan_b.dirs
    IN {d \in gone : ~\E g \in gone : g # d /\ IsPrefix(g, d)}

\* C1 as stated: when a run completes, every path either scan found is
\* counted in at most one of the six counters, once - also a path that is a
\* directory in one tree and a file in the other.
C1_OneClassPerPath ==
    pc = "done" =>
        /\ \A p \in ScannedPaths : Cardinality(Classes(p)) <= 1
        /\ CountersMatchEvents

\* C1 as amended: when a run completes, every path either scan found is
\* counted in at most one of same, new_files, del_files, mod_text and
\* mod_binary, once; only a path that is a directory in base and a file in
\* target is counted twice, in del_dirs and in new_files.
C1_OneFileClassPerPath ==
    pc = "done" =>
        /\ \A p \in ScannedPaths :
            /\ Cardinality(Classes(p) \ {"del_dirs"}) <= 1
            /\ Cardinality(Classes(p)) > 1 =>
                 /\ Classes(p) = {"del_dirs", "new_files"}
                 /\ is_dir(base, p)
                 /\ is_file(target, p)
        /\ CountersMatchEvents

\* A completed run in which a directory of base is a file of target, and a
\* file below a deleted head was met again by the loop over scan_a.files
C1_Witness ==
    /\ pc = "done"
    /\ \E p \in ScannedPaths : Classes(p) = {"del_dirs", "new_files"}
    /\ \E p \in DOMAIN scan_a.files : p \in processed_deleted_files

\* The files both scans found
CommonFiles == DOMAIN scan_a.files \cap DOMAIN scan_b.files

\* The writes made for relative path rel
ArtifactsOf(rel) == {w \in log : w.rel = rel}

\* dst is the candidate, or the candidate with a disambiguator
UpToNumbering(dst, candidate) ==
    \/ dst = candidate
    \/ \E n \in 1..(Cardinality(DOMAIN out) + 1) : dst = Numbered(candidate, n)

LooseDeletedFiles ==
    {rel \in DOMAIN scan_a.files \ DOMAIN scan_b.files :
        ~\E d \in DeletedHeads : IsPrefix(d, rel)}

\* The files of the target scan alone
NewFiles == DOMAIN scan_b.files \ DOMAIN scan_a.files

\* One artifact for rel: of this kind, at the marked path up to numbering,
\* holding these bytes
OneArtifact(rel, kind, marker, data) ==
    \E w \in log :
        /\ ArtifactsOf(rel) = {w}
        /\ w.kind = kind
        /\ UpToNumbering(w.dst, Marked(rel, marker))
        /\ w.data = data
        /\ is_file(out, w.dst)
        /\ out[w.dst].data = data

\* C3: when a run completes, every file of the target scan alone has exactly
\* one artifact, at <relpath>.new up to numbering, with the target file's
\* bytes, and is counted once in new_files; every file of the base scan alone
\* that lies below no deleted head has exactly one, at <relpath>.deleted up to
\* numbering, with the base file's bytes, and is counted once in del_files.
C3_OneSidedFiles ==
    pc = "done" =>
        /\ \A rel \in NewFiles :
            /\ OneArtifact(rel, "new", <<"new">>, target[rel].data)
            /\ Counted(rel, "new_files") \in events
        /\ counters.new_files = Cardinality(NewFiles)
        /\ \A rel \in LooseDeletedFiles :
            /\ OneArtifact(rel, "deleted", <<"deleted">>, base[rel].data)
            /\ Counted(rel, "del_files") \in events
        /\ counters.del_files = CountOf("del_files")

\* A completed run with a loose deleted file and a new file whose artifact
\* got a disambiguator
C3_Witness ==
    /\ pc = "done"
    /\ LooseDeletedFiles # {}
    /\ \E w \in log : w.kind = "new" /\ w.dst = Numbered(Marked(w.rel, <<"new">>), 1)

\* The files physically below directory d of the base tree
FilesBelow(d) == {f \in DOMAIN base : is_file(base, f) /\ IsPrefix(d, f)}

\* What C4 promises of directory d
CollapsedAt(d) ==
    /\ Counted(d, "del_dirs") \in events
    /\ \A f \in FilesBelow(d) :
        /\ Counted(f, "del_files") \in events
        /\ \A w \in ArtifactsOf(f) : w.kind = "deleted_tree"

\* C4 as stated: when a run completes, for every directory d of the base tree
\* that the target tree has nothing of (neither d nor anything below it), d is
\* counted once in del_dirs, every file physically below d is counted once in
\* del_files, and none is written or counted as a loose deleted file.
C4_EveryDeletedDir ==
    pc = "done" =>
        /\ \A d \in DOMAIN base :
            (is_dir(base, d) /\ ~\E t \in DOMAIN target : IsPrefix(d, t))
                => CollapsedAt(d)
        /\ CountersMatchEvents

\* C4 as amended: the same of every deleted-directory head d (a directory of
\* the base scan that is no directory of the target scan and lies below no
\* other such directory); del_dirs counts the heads and nothing else.
C4_EveryDeletedHead ==
    pc = "done" =>
        /\ \A d \in DeletedHeads : CollapsedAt(d)
        /\ counters.del_dirs = Cardinality(DeletedHeads)
        /\ CountersMatchEvents

\* A completed run with a deleted head that holds a file the scan ignored
\* and a file the scan found
C4_Witness ==
    /\ pc = "done"
    /\ \E d \in DeletedHeads :
        /\ \E f \in FilesBelow(d) : f \notin DOMAIN scan_a.files
        /\ \E f \in FilesBelow(d) : f \in DOMAIN scan_a.files

\* The target file of rel is binary at sight or larger than max_text_size
RawCopied(rel) ==
    LET data == target[rel].data
    IN \/ \E i \in 1..Len(data) : i <= SniffLen /\ data[i] \in {NUL, BAD}
       \/ Len(data) > opts.max_text_size

\* C5: when a run into an empty output directory completes, every file of
\* both scans whose contents differ has its artifact at <relpath>.modified;
\* when the target file is binary or larger than max_text_size the artifact
\* holds the target file's bytes, a note is written beside it at
\* <relpath>.modified.NOTE.txt, and the file is counted in mod_binary only;
\* otherwise the artifact holds the annotated diff, there is no note, and the
\* file is counted in mod_text only.
C5_ModifiedBranches ==
    pc = "done" =>
        \A rel \in CommonFiles :
            base[rel].data # target[rel].data =>
                \E w \in ArtifactsOf(rel) :
                    /\ w.kind = "modified"
                    /\ w.dst = Marked(rel, <<"modified">>)
                    /\ is_file(out, w.dst)
                    /\ out[w.dst].data = w.data
                    /\ IF RawCopied(rel)
                       THEN /\ w.data = target[rel].data
                            /\ \E n \in ArtifactsOf(rel) :
                                /\ n.kind = "note"
                                /\ n.dst = Marked(w.dst, <<"NOTE", "txt">>)
                                /\ is_file(out, n.dst)
                                /\ ArtifactsOf(rel) = {w, n}
                            /\ Classes(rel) = {"mod_binary"}
                       ELSE /\ w.data = annotate_text_diff(base[rel].data,
                                            target[rel].data,
                                            comment_style_for(rel),
                                            opts.normalize_eol)
                            /\ ArtifactsOf(rel) = {w}
                            /\ Classes(rel) = {"mod_text"}

\* A completed run with a text diff of a file of exactly max_text_size bytes
\* and a raw copy of a file that is text but larger
C5_Witness ==
    /\ pc = "done"
    /\ \E rel \in CommonFiles :
        /\ Classes(rel) = {"mod_text"}
        /\ Len(target[rel].data) = opts.max_text_size
    /\ \E rel \in CommonFiles :
        /\ Classes(rel) = {"mod_binary"}
        /\ ~is_probably_binary(target[rel].data)

\* C6: when a run completes, every file f below a directory of the base tree
\* that the target tree has nothing of is in the output tree, with f's
\* content, at f's path with one ".deleted" on the directory's name and one
\* ".deleted" on the file's name (old/a.txt at old.deleted/a.txt.deleted);
\* del_dirs counts the directory once and del_files each file once.
C6_OneDeletedSuffix ==
    pc = "done" =>
        \A d \in DeletedHeads :
            /\ Counted(d, "del_dirs") \in events
            /\ \A f \in FilesBelow(d) :
                /\ Counted(f, "del_files") \in events
                /\ is_file(out, rel_parts_with_deleted_suffix(f))
                /\ out[rel_parts_with_deleted_suffix(f)].data = base[f].data

\* A completed run that copied a deleted directory with a file in it
C6_Witness ==
    /\ pc = "done"
    /\ \E d \in DeletedHeads : \E f \in FilesBelow(d) :
        \E w \in ArtifactsOf(f) : w.kind = "deleted_tree"

\* C7: no write of a run finds an entry at its destination, whether written
\* earlier in the run or left by the run before, and what a write of the run
\* has put at its destination is still there: artifacts and notes alike.
C7_NeverOverwrites ==
    \A w \in log :
        /\ ~w.clobbered
        /\ is_file(out, w.dst)
        /\ out[w.dst].data = w.data

\* A second run into the output directory of the first has written a
\* numbered artifact and its note beside the first run's
C7_Witness ==
    /\ run = 2
    /\ pc = "done"
    /\ \E w \in log, n \in log :
        /\ w.kind = "modified"
        /\ w.dst = Numbered(Marked(w.rel, <<"modified">>), 1)
        /\ exists(out, Marked(w.rel, <<"modified">>))
        /\ n.kind = "note"
        /\ n.dst = Marked(w.dst, <<"NOTE", "txt">>)
        /\ exists(out, Marked(Marked(w.rel, <<"modified">>), <<"NOTE", "txt">>))

\* C8: avoid_collision returns a path at which nothing exists; the candidate
\* when nothing exists at it; otherwise `stem (n).ext` in the candidate's
\* directory, ext the candidate's last extension, n >= 1 the smallest for
\* which nothing exists.
C8_SmallestFreeName ==
    probe.fn = "avoid_collision" /\ probe.done =>
        LET c == probe.candidate
            r == probe.result
        IN /\ ~exists(out, r)
           /\ ~exists(out, c) => r = c
           /\ exists(out, c) =>
                \E n \in 1..(MaxTaken + 1) :
                    /\ r = Numbered(c, n)
                    /\ \A k \in 1..(n - 1) : exists(out, Numbered(c, k))
                    /\ parent(r) = parent(c)
                    /\ extension(file_name(r)) = extension(file_name(c))
                    /\ Front(file_stem(file_name(r))) = Front(file_stem(file_name(c)))
                    /\ Last(file_stem(file_name(r)))
                         = Last(file_stem(file_name(c))) \o " (" \o ToString(n) \o ")"

\* avoid_collision has skipped a taken candidate and a taken first
\* disambiguation
C8_Witness ==
    /\ probe.fn = "avoid_collision"
    /\ probe.done
    /\ exists(out, probe.candidate)
    /\ probe.result = Numbered(probe.candidate, 2)

\* The terminator of a line: CR LF, LF, CR or none
Terminator(line) ==
    IF Len(line) >= 2 /\ line[Len(line) - 1] = CR /\ Last(line) = LF THEN <<CR, LF>>
    ELSE IF line # <<>> /\ Last(line) \in {LF, CR} THEN <<Last(line)>>
    ELSE <<>>

\* A line without its terminator
Content(line) == SubSeq(line, 1, Len(line) - Len(Terminator(line)))

\* What opens a DELETED annotation and what closes a NEW one
DeletedMark(style) ==
    IF style.kind = "LinePrefix" THEN style.prefix \o DeletedTag
    ELSE style.open \o <<" ">> \o DeletedTag

NewMark(style) ==
    IF style.kind = "LinePrefix" THEN style.new_suffix
    ELSE <<" ">> \o style.new_block

IsDeletedLine(style, line) == IsPrefix(DeletedMark(style), line)

IsNewLine(style, line) == IsSuffix(NewMark(style), Content(line))

\* The line a DELETED annotation was made of
StripDeleted(style, line) ==
    LET rest == SubSeq(line, Len(DeletedMark(style)) + 1, Len(line))
        c == Content(rest)
        closing == <<" ">> \o style.close
    IN IF style.kind = "Block" /\ IsSuffix(closing, c)
       THEN SubSeq(c, 1, Len(c) - Len(closing)) \o Terminator(rest)
       ELSE rest

\* The line a NEW marker was put on
StripNew(style, line) ==
    LET c == Content(line)
    IN SubSeq(c, 1, Len(c) - Len(NewMark(style))) \o Terminator(line)

\* The output without its DELETED lines, the NEW markers stripped
RecoverTarget(style, lines) ==
    LET keep(l) == ~IsDeletedLine(style, l)
        kept == SelectSeq(lines, keep)
    IN [i \in 1..Len(kept) |->
            IF IsNewLine(style, kept[i]) THEN StripNew(style, kept[i]) ELSE kept[i]]

\* The output without its NEW lines, the DELETED annotations stripped
RecoverBase(style, lines) ==
    LET keep(l) == IsDeletedLine(style, l) \/ ~IsNewLine(style, l)
        kept == SelectSeq(lines, keep)
    IN [i \in 1..Len(kept) |->
            IF IsDeletedLine(style, kept[i]) THEN StripDeleted(style, kept[i])
            ELSE kept[i]]

\* C9: the lines of annotate_text_diff's output, the DELETED lines removed and
\* the NEW markers stripped, are the target text's lines, and, the NEW lines
\* removed and the DELETED annotations stripped, the base text's lines,
\* terminators included, also when a last line has none.
C9_LosslessSuperposition ==
    probe.fn = "annotate_text_diff" /\ probe.done =>
        LET style == comment_style_for(probe.path)
            a_lines == tokenize_lines(read_text_best_effort(probe.a,
                                                            probe.normalize_eol))
            b_lines == tokenize_lines(read_text_best_effort(probe.b,
                                                            probe.normalize_eol))
            lines == tokenize_lines(probe.result)
        IN /\ RecoverTarget(style, lines) = b_lines
           /\ RecoverBase(style, lines) = a_lines

\* C9 where it does hold: both texts end with LF and no line ends otherwise
C9_Witness ==
    /\ probe.fn = "annotate_text_diff"
    /\ probe.done
    /\ probe.a = <<"a", LF>>
    /\ probe.b = <<"b", LF>>
    /\ C9_LosslessSuperposition

\* C10: a second run on the same trees with the same options ends as the
\* first did, in success or in error, and with the same counters, whatever
\* the order of the maps and whether the output directory is kept or new.
C10_SameOutcomeAndCounters ==
    (run > 1 /\ pc \in {"done", "failed"}) =>
        /\ pc = prev[run - 1].outcome
        /\ pc = "done" => counters = prev[run - 1].counters

\* A second run has failed after a first that succeeded
C10_Witness ==
    /\ run = 2
    /\ pc = "failed"
    /\ prev[1].outcome = "done"

\* The common files whose contents differ
ModifiedFiles == {rel \in CommonFiles : base[rel].data # target[rel].data}

\* The artifacts of rel are written: the copy or the diff, and the note of a
\* raw copy
Served(rel) ==
    \/ rel \in LooseDeletedFiles /\ \E w \in ArtifactsOf(rel) : w.kind = "deleted"
    \/ rel \in NewFiles /\ \E w \in ArtifactsOf(rel) : w.kind = "new"
    \/ /\ rel \in ModifiedFiles
       /\ \E w \in ArtifactsOf(rel) : w.kind = "modified"
       /\ RawCopied(rel) => \E w \in ArtifactsOf(rel) : w.kind = "note"

\* C11: a run in which the materialization of a loose deleted, new or
\* modified file fails does not complete (run_bigdiff returns Ok only when
\* each of them is written); the failed run takes no further step, and what
\* was written before the failure is in the output tree at every moment.
C11_ErrorStopsRun ==
    /\ [](pc = "done" =>
            \A rel \in LooseDeletedFiles \cup NewFiles \cup ModifiedFiles : Served(rel))
    /\ [](\A w \in log : is_file(out, w.dst) /\ out[w.dst].data = w.data)
    /\ [][pc = "failed" => UNCHANGED <<out, log, counters>>]_vars

\* A run has failed on a refused write, with an artifact written before it
\* still in the output tree
C11_Witness ==
    /\ pc = "failed"
    /\ denied # {}
    /\ \A p \in denied : ~exists(out, p)
    /\ \E w \in log : w.kind \in {"deleted", "new", "modified"} /\ is_file(out, w.dst)
    /\ \E rel \in LooseDeletedFiles \cup NewFiles \cup ModifiedFiles : ~Served(rel)

\* C12: when the copy of a file of a deleted subtree fails, the file is not
\* counted in del_files (a file below a head is counted if and only if its
\* copy is written), and the run goes on to its end.
C12_FailedCopyNotCounted ==
    pc = "done" =>
        \A d \in DeletedHeads : \A f \in FilesBelow(d) :
            Counted(f, "del_files") \in events
                <=> \E w \in ArtifactsOf(f) : w.kind = "deleted_tree"

\* A run has completed although the copy of a file of a deleted subtree was
\* refused
C12_Witness ==
    /\ pc = "done"
    /\ \E d \in DeletedHeads : \E f \in FilesBelow(d) :
        /\ ArtifactsOf(f) = {}
        /\ Marked(rel_parts_with_deleted_suffix(f), <<"deleted">>) \in denied

\* C13: with dry_run set, run_bigdiff creates nothing in the output directory
\* and compares and counts no file, and main makes no directory.
C13_DryRunWritesNothing ==
    opts.dry_run =>
        /\ out = EmptyTree
        /\ log = {}
        /\ events = {}
        /\ probe.fn = "main" => probe.made = {}

\* A run with dry_run set has completed with both scans made and a file on
\* each side
C13_Witness ==
    /\ opts.dry_run
    /\ pc = "done"
    /\ DOMAIN scan_a.files # {}
    /\ DOMAIN scan_b.files # {}

\* The units of C16 and their factors
UnitFactor(u) ==
    CASE u = <<"b">> -> 1
      [] u \in {<<"k">>, <<"k", "b">>} -> 1000
      [] u = <<"k", "i", "b">> -> 1024
      [] u \in {<<"m">>, <<"m", "b">>} -> 1000 * 1000
      [] u = <<"m", "i", "b">> -> 1024 * 1024
      [] u \in {<<"g">>, <<"g", "b">>} -> 1000 * 1000 * 1000
      [] u = <<"g", "i", "b">> -> 1024 * 1024 * 1024
      [] OTHER -> 0

\* A number with one unit of the table, or a bare integer
WellFormedSize ==
    LET u == [i \in 1..Len(trim(probe.unit)) |-> lower(trim(probe.unit)[i])]
    IN /\ probe.unit = <<>> \/ Head(probe.unit) # " "
       /\ IF u = <<>> THEN parse_u64(probe.num).ok
          ELSE UnitFactor(u) # 0 /\ parse_f64(probe.num).ok

\* C16: parse_size gives a number with a unit of the table its value times
\* the unit's factor, whatever the case of the letters, a bare integer its
\* value, and every other string 5,000,000.
C16_SizeOrDefault ==
    probe.fn = "parse_size" /\ probe.done =>
        LET u == [i \in 1..Len(trim(probe.unit)) |-> lower(trim(probe.unit)[i])]
        IN IF WellFormedSize
           THEN probe.result = IF u = <<>> THEN parse_u64(probe.num).val
                               ELSE scaled(parse_f64(probe.num).twice, UnitFactor(u))
           ELSE probe.result = 5000000

\* C16 on the strings that parse: the value times the unit's factor
C16_UnitsScale ==
    probe.fn = "parse_size" /\ probe.done /\ WellFormedSize =>
        LET u == [i \in 1..Len(trim(probe.unit)) |-> lower(trim(probe.unit)[i])]
        IN probe.result = IF u = <<>> THEN parse_u64(probe.num).val
                          ELSE scaled(parse_f64(probe.num).twice, UnitFactor(u))

\* parse_size has returned 0 for a string that is no size
C16_Witness ==
    /\ probe.fn = "parse_size"
    /\ probe.done
    /\ ~WellFormedSize
    /\ probe.result = 0

\* C14: on a command line with a configuration error main makes no
\* directory, makes no scan, does not call run_bigdiff, and ends with a
\* status other than 0.
C14_ConfigErrorsFirst ==
    (probe.fn = "main"
        /\ \/ \E i \in 1..Len(probe.args.ignore) : ~pattern_new(probe.args.ignore[i]).ok
           \/ probe.args.base_dir = probe.args.target_dir
           \/ probe.args.base_dir = <<MISSING>>
           \/ probe.args.target_dir = <<MISSING>>
           \/ starts_with(probe.args.output_dir, probe.args.base_dir)
           \/ starts_with(probe.args.output_dir, probe.args.target_dir))
    => /\ probe.made = {}
       /\ scan_a = NoScan
       /\ scan_b = NoScan
       /\ probe.step # "run_bigdiff"
       /\ probe.step = "exit" => probe.exit # 0

\* main has ended on an invalid glob pattern
C14_Witness ==
    /\ probe.fn = "main"
    /\ probe.step = "exit"
    /\ probe.exit = 101
    /\ probe.made # {}

\* C15: no step changes the base tree or the target tree.
C15_InputsUntouched == [][base' = base /\ target' = target]_vars

\* main has passed its checks with an output directory it made inside the
\* base root
C15_Witness ==
    /\ probe.fn = "main"
    /\ probe.step \in {"run_bigdiff", "mode"}
    /\ \E p \in probe.made : Head(p) = A_ROOT /\ is_dir(base, Tail(p))

\* A path is ignored: its last component is one of the four names, or a user
\* glob matches its relative path or its bare name
IgnoredPath(p) ==
    \/ Last(p) \in {<<".git">>, <<"__pycache__">>, <<".DS_Store">>, <<"Thumbs", "db">>}
    \/ \E i \in 1..Len(opts.ignore_patterns) :
        \/ matches(opts.ignore_patterns[i], p)
        \/ matches(opts.ignore_patterns[i], <<Last(p)>>)

\* What C17 says of one scan and the tree it is of
CleanScan(scan, tree) ==
    LET recorded == DOMAIN scan.files \cup scan.dirs
    IN /\ <<>> \notin recorded
       /\ \A p \in recorded :
            /\ p \in DOMAIN tree
            /\ \A k \in 1..Len(p) : ~IgnoredPath(SubSeq(p, 1, k))

\* C17: in both scans of a run the root is in neither files nor dirs, and
\* no recorded path is ignored or lies below an ignored directory.
C17_IgnoredSubtreesPruned ==
    pc # "start" => CleanScan(scan_a, base) /\ CleanScan(scan_b, target)

\* The base scan has left out a file that is not ignored itself but lies in
\* an ignored directory, and has recorded another file
C17_Witness ==
    /\ pc # "start"
    /\ DOMAIN scan_a.files # {}
    /\ \E f \in DOMAIN base :
        /\ is_file(base, f)
        /\ ~IgnoredPath(f)
        /\ Len(f) > 1
        /\ IgnoredPath(parent(f))
        /\ f \notin DOMAIN scan_a.files

\* The heads run_bigdiff has computed, copied or still to copy
HeadsComputed ==
    {heads[i] : i \in 1..Len(heads)}
    \cup (IF head = <<>> THEN {} ELSE {head})
    \cup {e.path : e \in {e \in events : e.class = "del_dirs"}}

\* C18: the heads are the directories of the base scan that the target scan
\* lacks and that have no proper ancestor among these, whatever the order of
\* the set; no head lies below another, every such directory is a head or
\* below exactly one, and each head is copied once: listed once, and counted
\* once in del_dirs when the run completes.
C18_HeadsAreTopmost ==
    pc # "start" =>
        LET gone == scan_a.dirs \ scan_b.dirs
        IN /\ HeadsComputed = {d \in gone : ~\E g \in gone : g # d /\ IsPrefix(g, d)}
           /\ \A h \in HeadsComputed, g \in HeadsComputed : IsPrefix(h, g) => h = g
           /\ \A d \in gone :
                Cardinality({h \in HeadsComputed : IsPrefix(h, d)}) = 1
           /\ \A i \in 1..Len(heads), j \in 1..Len(heads) : heads[i] = heads[j] => i = j
           /\ \A i \in 1..Len(heads) : Counted(heads[i], "del_dirs") \notin events
           /\ pc = "done" => counters.del_dirs = Cardinality(HeadsComputed)

\* A run has completed with a head that has a deleted directory below it and
\* with a second head
C18_Witness ==
    /\ pc = "done"
    /\ Cardinality(HeadsComputed) = 2
    /\ \E d \in scan_a.dirs \ scan_b.dirs : d \notin HeadsComputed

\* The path of C19 for entry p of the subtree of head h: the components above
\* the head as they are, those from the head downward with ".deleted"
MarkedFromHead(h, p) ==
    [i \in 1..Len(p) |-> IF i < Len(h) THEN p[i] ELSE push_name(p[i], <<"deleted">>)]

\* C19: when a run completes, every directory of the subtree of a deleted
\* head is in the output tree with ".deleted" on its components from the head
\* downward and the names above the head unchanged, and every file of the
\* subtree is copied into the directory so named.
C19_AncestorsKeepNames ==
    pc = "done" =>
        \A h \in DeletedHeads : \A p \in DOMAIN base :
            IsPrefix(h, p) =>
                IF is_dir(base, p)
                THEN is_dir(out, MarkedFromHead(h, p))
                ELSE \E w \in ArtifactsOf(p) :
                        /\ w.kind = "deleted_tree"
                        /\ parent(w.dst) = MarkedFromHead(h, parent(p))

\* A run has completed with a deleted head below a directory of both trees
C19_Witness ==
    /\ pc = "done"
    /\ \E h \in DeletedHeads :
        /\ Len(h) > 1
        /\ is_dir(target, parent(h))
        /\ is_dir(out, rel_parts_with_deleted_suffix(h))

\* C19 for the heads at the top of the tree, which have no component above
C19_TopHeads ==
    pc = "done" =>
        \A h \in DeletedHeads : \A p \in DOMAIN base :
            (Len(h) = 1 /\ IsPrefix(h, p)) =>
                IF is_dir(base, p)
                THEN is_dir(out, MarkedFromHead(h, p))
                ELSE \E w \in ArtifactsOf(p) :
                        /\ w.kind = "deleted_tree"
                        /\ parent(w.dst) = MarkedFromHead(h, parent(p))

====
